---- MODULE Spec2Model ----
(***************************************************************************)
(* Model of create_icons.py: the icon generator create_icon(size) and the  *)
(* batch driver main().                                                    *)
(*                                                                         *)
(* A bitmap is a canvas and the fills applied to it; its pixels are what   *)
(* the fills leave, a later fill overwriting an earlier one as PIL's       *)
(* ImageDraw does (both corners of a rectangle are inclusive).  The float  *)
(* products int(n * 0.8), int(n * 0.7), int(n * 0.15), int(n * 0.3) are    *)
(* computed on the IEEE-754 double mantissas, limb by limb, with           *)
(* round-to-nearest-even and truncation toward zero, so that they agree    *)
(* with Python also where the double product falls below the exact one     *)
(* (int(90 * 0.7) = 62).                                                   *)
(*                                                                         *)
(* Spec and FairSpec are runs of main(); GenSpec calls create_icon on      *)
(* every size of 1 .. MaxSize; PureSpec calls it repeatedly on the sizes   *)
(* of main() in any order.                                                 *)
(***************************************************************************)
EXTENDS Integers, Sequences, FiniteSets, TLC

\* ------------------------------------------------------------------ bounds
\* Largest size handed to create_icon by the generator specification.
MaxSize == 200
\* Number of create_icon calls made by the repeated-call specification.
MaxCalls == 4

\* ------------------------------------------------------- program constants
\* sizes = [16, 32, 48, 128]
sizes == <<16, 32, 48, 128>>
\* fill colours and the initial canvas colour
TRANSPARENT == <<0, 0, 0, 0>>
BLUE == <<0, 122, 255, 255>>
WHITE == <<255, 255, 255, 255>>

\* ----------------------------------------------------- double arithmetic
\* A 53-bit mantissa is kept as four 16-bit limbs, least significant first.
LimbBase == 65536
\* 0.8 = 0x1.999999999999ap-1 = 0x1999999999999a * 2^-53
M08 == <<39322, 39321, 39321, 25>>
\* 0.7 = 0x1.6666666666666p-1 = 0x16666666666666 * 2^-53
M07 == <<26214, 26214, 26214, 22>>
\* 0.15 = 0x1.3333333333333p-3 and 0.3 = 0x1.3333333333333p-2
M03 == <<13107, 13107, 13107, 19>>

RECURSIVE Pow2(_)
Pow2(k) == IF k <= 0 THEN 1 ELSE 2 * Pow2(k - 1)

RECURSIVE BitLen(_)
BitLen(x) == IF x <= 0 THEN 0 ELSE 1 + BitLen(x \div 2)

\* trunc(n * c) for n >= 1 and the double c = m * 2^-(48 + s):
\* exact product of n by the mantissa, rounded to 53 bits (ties to even),
\* then the integer part.  Needs n < 2^11 so that the product has 4 limbs.
FloatMulMag(n, m, s) ==
    LET t0 == n * m[1]
        p0 == t0 % LimbBase
        t1 == n * m[2] + (t0 \div LimbBase)
        p1 == t1 % LimbBase
        t2 == n * m[3] + (t1 \div LimbBase)
        p2 == t2 % LimbBase
        p3 == n * m[4] + (t2 \div LimbBase)
        d  == BitLen(p3) - 5
        q  == Pow2(d)
        r  == p0 % q
        up == (2 * r > q) \/ (2 * r = q /\ ((p0 \div q) % 2 = 1))
        r0 == (p0 - r) + (IF up THEN q ELSE 0)
        carry == IF r0 >= LimbBase /\ p1 = LimbBase - 1 /\ p2 = LimbBase - 1
                 THEN 1 ELSE 0
    IN  (p3 + carry) \div Pow2(s)

\* int(n * c): truncation toward zero, the product being odd in n
FloatMulInt(n, m, s) ==
    IF n = 0 THEN 0
    ELSE IF n < 0 THEN 0 - FloatMulMag(0 - n, m, s)
    ELSE FloatMulMag(n, m, s)

Max(a, b) == IF a >= b THEN a ELSE b
Min(a, b) == IF a <= b THEN a ELSE b
\* Python's // rounds toward minus infinity, as \div does for a positive divisor
FloorDiv(a, b) == a \div b

\* ------------------------------------------------------- icon geometry
\* margin = max(1, size // 8)
margin(size) == Max(1, FloorDiv(size, 8))
\* radius = max(2, size // 6)
radius(size) == Max(2, FloorDiv(size, 6))
\* note_margin = max(2, size // 4)
note_margin(size) == Max(2, FloorDiv(size, 4))
\* note_width = size - (note_margin * 2)
note_width(size) == size - (note_margin(size) * 2)
\* note_height = int(note_width * 0.8)
note_height(size) == FloatMulInt(note_width(size), M08, 5)
\* note_x = note_margin
note_x(size) == note_margin(size)
\* the operands of the subtraction exchanged
note_y_swapped(size) == FloorDiv(note_height(size) - size, 2)

\* note_y = (size - note_height) // 2
note_y(size) == FloorDiv(size - note_height(size), 2)
\* line_height = max(1, size // 16)
line_height(size) == Max(1, FloorDiv(size, 16))
\* the divisor of line_height copied to line_spacing
line_spacing_sixteenth(size) == Max(2, FloorDiv(size, 16))

\* line_spacing = max(2, size // 8)
line_spacing(size) == Max(2, FloorDiv(size, 8))
\* line_width = int(note_width * 0.7)
line_width(size) == FloatMulInt(note_width(size), M07, 5)
\* line_x = note_x + int(note_width * 0.15)
line_x(size) == note_x(size) + FloatMulInt(note_width(size), M03, 7)
\* line_y = note_y + int(note_height * 0.3) + (i * line_spacing)
line_y(size, i) ==
    note_y(size) + FloatMulInt(note_height(size), M03, 6) + (i * line_spacing(size))
\* the fit test dropped: every line is drawn
line_fits_always(size, i) == TRUE

\* if line_y + line_height < note_y + note_height
line_fits(size, i) ==
    line_y(size, i) + line_height(size) < note_y(size) + note_height(size)
\* a strict comparison: size 32 gets no lines
has_lines_strict(size) == size > 32

\* if size >= 32
has_lines(size) == size >= 32

\* ------------------------------------------------------------------ state
VARIABLES
    pc,        \* position of the running program
    dirState,  \* what the path extension/assets/icons is: absent, dir or file
    files,     \* the entries of the icons directory: name -> content
    files0,    \* history: the entries of the directory when the run began
    idx,       \* position of the for loop in sizes (1-based)
    icon,      \* the value create_icon returned last, NoIcon before
    log,       \* the lines printed so far
    trace,     \* history: one record per loop iteration
    arg,       \* the size create_icon is being called with
    first,     \* history: size -> the first value create_icon returned for it
    ncalls     \* history: number of create_icon calls made

vars == <<pc, dirState, files, files0, idx, icon, log, trace, arg, first, ncalls>>

NoIcon == [size |-> 0]

\* ---------------------------------------------------------------- drawing
\* A bitmap is [w, h, base, ops]: a w x h canvas allocated in colour base and
\* the fills applied to it since, oldest first.  Its pixels are what the
\* fills leave: GetPixel computes them, a later fill overwriting an earlier.

\* a box is <<x0, y0, x1, y1>>, both corners inclusive
Inverted(box) == box[3] < box[1] \/ box[4] < box[2]
Normalised(box) ==
    <<Min(box[1], box[3]), Min(box[2], box[4]),
      Max(box[1], box[3]), Max(box[2], box[4])>>
InBox(p, box) ==
    /\ box[1] <= p[1] /\ p[1] <= box[3]
    /\ box[2] <= p[2] /\ p[2] <= box[4]

\* The pixels ImageDraw.rounded_rectangle fills: the box without the part of
\* each r x r corner square that lies outside the quarter disc of radius r
\* centred r pixels inside the corner.  The radius is clamped to half the
\* box, as the library does when opposite corners join.
InRounded(p, box, rad) ==
    LET r  == Min(rad, Min((box[3] - box[1]) \div 2, (box[4] - box[2]) \div 2))
        cx == IF p[1] < box[1] + r THEN box[1] + r
              ELSE IF p[1] > box[3] - r THEN box[3] - r ELSE p[1]
        cy == IF p[2] < box[2] + r THEN box[2] + r
              ELSE IF p[2] > box[4] - r THEN box[4] - r ELSE p[2]
        dx == p[1] - cx
        dy == p[2] - cy
    IN  /\ InBox(p, box)
        /\ (dx = 0 \/ dy = 0 \/ dx * dx + dy * dy <= r * r + r)

\* the pixels one fill covers
Covers(op, p) ==
    IF op.kind = "rounded_rectangle"
    THEN InRounded(p, Normalised(op.box), op.rad)
    ELSE InBox(p, Normalised(op.box))

\* the colour of pixel p after the first k fills
RECURSIVE PixelAfter(_, _, _)
PixelAfter(img, k, p) ==
    IF k = 0 THEN img.base
    ELSE IF Covers(img.ops[k], p) THEN img.ops[k].fill
    ELSE PixelAfter(img, k - 1, p)

\* img.getpixel((x, y))
GetPixel(img, x, y) == PixelAfter(img, Len(img.ops), <<x, y>>)

\* two bitmaps of the same dimensions holding the same pixels
SamePixels(a, b) ==
    /\ a.w = b.w
    /\ a.h = b.h
    /\ \A x \in 0 .. (a.w - 1) : \A y \in 0 .. (a.h - 1) :
         GetPixel(a, x, y) = GetPixel(b, x, y)

\* an allocation that hands back the previous canvas uncleared
Image_new_dirty(size) ==
    [w |-> size, h |-> size, base |-> TRANSPARENT,
     ops |-> IF icon = NoIcon THEN <<>> ELSE icon.img.ops]

\* Image.new('RGB', ...): an opaque black canvas
Image_new_opaque(size) ==
    [w |-> size, h |-> size, base |-> <<0, 0, 0, 255>>, ops |-> <<>>]

\* Image.new('RGBA', (size, size), (0, 0, 0, 0))
Image_new(size) ==
    [w |-> size, h |-> size, base |-> TRANSPARENT, ops |-> <<>>]

\* A drawing context st is [size, img, evaluated, raised]: the canvas, the
\* line indices the loop evaluated and whether an exception left
\* create_icon.  A box whose far corner is before its near corner is rejected
\* with ValueError by the library versions that validate coordinates
\* (strict) and filled with the corners swapped by the others.
draw_rounded_rectangle(st, box, rad, fill, strict) ==
    IF st.raised THEN st
    ELSE IF Inverted(box) /\ strict THEN [st EXCEPT !.raised = TRUE]
    ELSE [st EXCEPT !.img.ops = Append(@, [kind |-> "rounded_rectangle",
                                           box |-> box, rad |-> rad,
                                           fill |-> fill])]

draw_rectangle(st, box, fill, strict) ==
    IF st.raised THEN st
    ELSE IF Inverted(box) /\ strict THEN [st EXCEPT !.raised = TRUE]
    ELSE [st EXCEPT !.img.ops = Append(@, [kind |-> "rectangle",
                                           box |-> box, rad |-> 0,
                                           fill |-> fill])]

\* the rectangles of the three drawing calls
badge_box(size) ==
    <<margin(size), margin(size), size - margin(size), size - margin(size)>>
note_box(size) ==
    <<note_x(size), note_y(size),
      note_x(size) + note_width(size), note_y(size) + note_height(size)>>
line_box(size, i) ==
    <<line_x(size), line_y(size, i),
      line_x(size) + line_width(size), line_y(size, i) + line_height(size)>>

\* for i in range(3): ... , from index i on
RECURSIVE note_lines(_, _, _)
note_lines(st, i, strict) ==
    IF i >= 3 \/ st.raised THEN st
    ELSE LET st1 == [st EXCEPT !.evaluated = Append(@, i)]
             st2 == IF line_fits(st.size, i)
                    THEN draw_rectangle(st1, line_box(st.size, i), BLUE, strict)
                    ELSE st1
         IN  note_lines(st2, i + 1, strict)

\* create_icon(size): the context when the function is left
create_icon(size, strict) ==
    LET st0 == [size |-> size, img |-> Image_new(size),
                evaluated |-> <<>>, raised |-> FALSE]
        st1 == draw_rounded_rectangle(st0, badge_box(size), radius(size),
                                      BLUE, strict)
        st2 == draw_rectangle(st1, note_box(size), WHITE, strict)
    IN  IF has_lines(size) THEN note_lines(st2, 0, strict) ELSE st2

\* ------------------------------------------------------------ batch driver
\* a file name that forgets the size
IconName_fixed(size) == "icon" \o ".png"

\* f'icon{size}.png'
IconName(size) == "icon" \o ToString(size) \o ".png"

\* directory contents: a PNG holding a bitmap, a file some earlier program
\* left, or what an interrupted save left
Png(img) == [kind |-> "png", img |-> img]
Stale == [kind |-> "stale"]
Partial == [kind |-> "partial"]
EmptyDir == [n \in {} |-> Stale]
UsedDir == [n \in {IconName(16), "notes.txt"} |-> Stale]

Init ==
    /\ pc = "makedirs"
    /\ dirState \in {"absent", "dir", "file"}
    /\ files \in (IF dirState = "dir" THEN {EmptyDir, UsedDir} ELSE {EmptyDir})
    /\ files0 = files
    /\ idx = 1
    /\ icon = NoIcon
    /\ log = <<>>
    /\ trace = <<>>
    /\ arg = 0
    /\ first = <<>>
    /\ ncalls = 0

\* os.makedirs(icons_dir, exist_ok=True) where the directory is there
MakeDirsExists ==
    /\ pc = "makedirs"
    /\ dirState = "dir"
    /\ pc' = "loop"
    /\ UNCHANGED <<dirState, files, files0, idx, icon, log, trace, arg, first, ncalls>>

\* os.makedirs(icons_dir, exist_ok=True) creating the directory
MakeDirsCreates ==
    /\ pc = "makedirs"
    /\ dirState = "absent"
    /\ dirState' = "dir"
    /\ pc' = "loop"
    /\ UNCHANGED <<files, files0, idx, icon, log, trace, arg, first, ncalls>>

\* a failure of os.makedirs that is swallowed, the loop starting all the same
MakeDirsFails_swallowed ==
    /\ pc = "makedirs"
    /\ dirState \in {"absent", "file"}
    /\ pc' = "loop"
    /\ UNCHANGED <<dirState, files, files0, idx, icon, log, trace, arg, first, ncalls>>

\* os.makedirs raising OSError (no permission, or the path is a regular
\* file): nothing catches it and main is left
MakeDirsFails ==
    /\ pc = "makedirs"
    /\ dirState \in {"absent", "file"}
    /\ pc' = "crashed"
    /\ UNCHANGED <<dirState, files, files0, idx, icon, log, trace, arg, first, ncalls>>

\* where the loop goes after the iteration at position i
AfterIteration(i) == IF i >= Len(sizes) THEN "summary" ELSE "loop"

\* an exception that is not caught leaves main
AfterException_propagates(i) == "crashed"

\* except Exception as e: print(...), then the loop goes on
AfterException(i) == AfterIteration(i)

\* One iteration of `for size in sizes`, the try block raising in create_icon:
\* the except clause prints the failure.
IterateCreateRaises ==
    /\ pc = "loop"
    /\ idx <= Len(sizes)
    /\ LET size == sizes[idx]
       IN  /\ log' = Append(log, <<"failed", IconName(size)>>)
           /\ trace' = Append(trace, [size |-> size, cause |-> "create",
                                      returned |-> NoIcon])
    /\ idx' = idx + 1
    /\ pc' = AfterException(idx)
    /\ UNCHANGED <<dirState, files, files0, icon, arg, first, ncalls>>

\* One iteration, icon.save raising: the file is untouched or left partial.
IterateSaveRaises ==
    /\ pc = "loop"
    /\ idx <= Len(sizes)
    /\ \E strict \in BOOLEAN :
         LET size == sizes[idx]
             res  == create_icon(size, strict)
         IN  /\ ~res.raised
             /\ icon' = res
             /\ \/ files' = files
                \/ files' = [n \in DOMAIN files \cup {IconName(size)} |->
                               IF n = IconName(size) THEN Partial ELSE files[n]]
             /\ log' = Append(log, <<"failed", IconName(size)>>)
             /\ trace' = Append(trace, [size |-> size, cause |-> "save",
                                        returned |-> res])
    /\ idx' = idx + 1
    /\ pc' = AfterException(idx)
    /\ UNCHANGED <<dirState, files0, arg, first, ncalls>>

\* One iteration without exception: the icon is created, saved and reported.
IterateOk ==
    /\ pc = "loop"
    /\ idx <= Len(sizes)
    /\ \E strict \in BOOLEAN :
         LET size == sizes[idx]
             res  == create_icon(size, strict)
         IN  /\ ~res.raised
             /\ icon' = res
             /\ files' = [n \in DOMAIN files \cup {IconName(size)} |->
                            IF n = IconName(size) THEN Png(res.img) ELSE files[n]]
             /\ log' = Append(log, <<"created", IconName(size)>>)
             /\ trace' = Append(trace, [size |-> size, cause |-> "none",
                                        returned |-> res])
    /\ idx' = idx + 1
    /\ pc' = AfterIteration(idx)
    /\ UNCHANGED <<dirState, files0, arg, first, ncalls>>

\* print(f'\nIcons saved to: ...') and the return of main
Summary ==
    /\ pc = "summary"
    /\ log' = Append(log, <<"saved", "icons">>)
    /\ pc' = "done"
    /\ UNCHANGED <<dirState, files, files0, idx, icon, trace, arg, first, ncalls>>

Next ==
    \/ MakeDirsExists
    \/ MakeDirsCreates
    \/ MakeDirsFails
    \/ IterateCreateRaises
    \/ IterateSaveRaises
    \/ IterateOk
    \/ Summary

Spec == Init /\ [][Next]_vars

\* the scheduler runs the single thread of main until it returns or dies
FairSpec == Spec /\ WF_vars(Next)

\* ------------------------------------------- create_icon on arbitrary sizes
GenInit ==
    /\ pc = "call"
    /\ arg \in 1 .. MaxSize
    /\ icon = NoIcon
    /\ dirState = "dir"
    /\ files = EmptyDir
    /\ files0 = EmptyDir
    /\ idx = 1
    /\ log = <<>>
    /\ trace = <<>>
    /\ first = <<>>
    /\ ncalls = 0

\* icon = create_icon(arg)
GenCall ==
    /\ pc = "call"
    /\ \E strict \in BOOLEAN : icon' = create_icon(arg, strict)
    /\ pc' = "returned"
    /\ UNCHANGED <<dirState, files, files0, idx, log, trace, arg, first, ncalls>>

\* the caller drops the result and picks the next size
GenArg ==
    /\ pc = "returned"
    /\ arg' \in 1 .. MaxSize
    /\ icon' = NoIcon
    /\ pc' = "call"
    /\ UNCHANGED <<dirState, files, files0, idx, log, trace, first, ncalls>>

GenNext == GenCall \/ GenArg

GenSpec == GenInit /\ [][GenNext]_vars

\* ------------------------------------------------ repeated create_icon calls
SizeSet == {sizes[i] : i \in DOMAIN sizes}

PureInit ==
    /\ pc = "pure"
    /\ arg = 0
    /\ icon = NoIcon
    /\ dirState = "dir"
    /\ files = EmptyDir
    /\ files0 = EmptyDir
    /\ idx = 1
    /\ log = <<>>
    /\ trace = <<>>
    /\ first = [s \in SizeSet |-> NoIcon]
    /\ ncalls = 0

\* icon = create_icon(s), in any order of sizes; trace keeps the sizes called
PureCall ==
    /\ pc = "pure"
    /\ ncalls < MaxCalls
    /\ \E s \in SizeSet, strict \in BOOLEAN :
         LET res == create_icon(s, strict)
         IN  /\ arg' = s
             /\ icon' = res
             /\ first' = IF first[s] = NoIcon THEN [first EXCEPT ![s] = res]
                         ELSE first
             /\ trace' = Append(trace, s)
    /\ ncalls' = ncalls + 1
    /\ UNCHANGED <<pc, dirState, files, files0, idx, log>>

PureNext == PureCall

PureSpec == PureInit /\ [][PureNext]_vars

\* ================================================================== claims
\* the fills of a returned bitmap that are accent lines: all after the first
\* two (badge, note card)
LineOps(res) == {k \in DOMAIN res.img.ops : k >= 3}
LineDrawn(res, i) ==
    \E k \in LineOps(res) : res.img.ops[k].box = line_box(res.size, i)
AllOk == \A i \in DOMAIN trace : trace[i].cause = "none"

\* C1: a failure while producing or saving one icon never aborts the run and
\* is never retried: whatever sizes fail, the sizes 16, 32, 48, 128 are each
\* attempted exactly once in that order, a failing size is reported as
\* failed, a non-failing size is written, and the run reaches its end.
C1_FailureNeitherAbortsNorRetries ==
    /\ [](/\ Len(trace) = idx - 1
          /\ Len(log) >= Len(trace)
          /\ \A i \in DOMAIN trace :
               /\ trace[i].size = sizes[i]
               /\ trace[i].cause # "none" =>
                    log[i] = <<"failed", IconName(sizes[i])>>
               /\ trace[i].cause = "none" =>
                    /\ log[i] = <<"created", IconName(sizes[i])>>
                    /\ IconName(sizes[i]) \in DOMAIN files
                    /\ files[IconName(sizes[i])] = Png(trace[i].returned.img))
    /\ [](trace # <<>> => pc # "crashed")
    /\ [](pc = "done" => Len(trace) = Len(sizes))
    /\ ((pc = "loop") ~> (pc = "done"))

C1_Witness ==
    /\ pc = "done"
    /\ trace[1].cause = "save"
    /\ trace[2].cause = "none"
    /\ trace[3].cause = "create"
    /\ trace[4].cause = "none"

\* C2 as stated: for size 128 the fit condition holds for all of i = 0, 1, 2
\* and create_icon(128) draws exactly 3 accent lines.
C2_Original ==
    (icon # NoIcon /\ icon.size = 128) =>
        /\ \A i \in 0 .. 2 : line_fits(128, i)
        /\ Cardinality(LineOps(icon)) = 3

\* C2 amended: for size 128 the fit condition holds for i = 0 and i = 1 and
\* fails for i = 2 (85 + 8 = 93 is not below 38 + 51 = 89), so
\* create_icon(128) draws exactly 2 accent lines, those of index 0 and 1.
C2_Amended ==
    (icon # NoIcon /\ icon.size = 128) =>
        /\ line_fits(128, 0)
        /\ line_fits(128, 1)
        /\ ~line_fits(128, 2)
        /\ line_y(128, 2) + line_height(128) = 93
        /\ note_y(128) + note_height(128) = 89
        /\ Cardinality(LineOps(icon)) = 2
        /\ LineDrawn(icon, 0)
        /\ LineDrawn(icon, 1)
        /\ ~LineDrawn(icon, 2)

C2_Witness == icon # NoIcon /\ icon.size = 128 /\ ~icon.raised

\* C3: for every positive size the geometry of create_icon cannot fail:
\* margin, radius, note_width, note_height and, from 32 on, line_height,
\* line_spacing and line_width are positive, and every rectangle handed to a
\* drawing call has its far corner at or beyond its near corner.
C3_GeometryNeverFails ==
    pc = "returned" =>
        /\ ~icon.raised
        /\ margin(arg) > 0
        /\ radius(arg) > 0
        /\ note_width(arg) > 0
        /\ note_height(arg) > 0
        /\ has_lines(arg) =>
             line_height(arg) > 0 /\ line_spacing(arg) > 0 /\ line_width(arg) > 0
        /\ ~Inverted(badge_box(arg))
        /\ ~Inverted(note_box(arg))
        /\ \A k \in DOMAIN icon.img.ops : ~Inverted(icon.img.ops[k].box)

\* C4: no accent line is drawn for size < 32; for size >= 32 each index
\* i in {0, 1, 2} is evaluated, line i is drawn if and only if
\* line_y(i) + line_height < note_y + note_height, a line that does not fit
\* does not stop the later indices, and at most 3 lines are drawn.
C4_LinesDrawnIffFit ==
    (pc = "returned" /\ ~icon.raised) =>
        /\ arg < 32 => (LineOps(icon) = {} /\ icon.evaluated = <<>>)
        /\ arg >= 32 =>
             /\ icon.evaluated = <<0, 1, 2>>
             /\ \A i \in 0 .. 2 :
                  LineDrawn(icon, i) <=>
                    (note_y(arg) + FloatMulInt(note_height(arg), M03, 6)
                       + i * line_spacing(arg) + line_height(arg)
                     < note_y(arg) + note_height(arg))
             /\ Cardinality(LineOps(icon))
                  = Cardinality({i \in 0 .. 2 : LineDrawn(icon, i)})
        /\ Cardinality(LineOps(icon)) <= 3
        /\ arg = 16 => Len(icon.img.ops) = 2

\* size 35 is one of the sizes whose three lines all fit
C4_Witness ==
    /\ pc = "returned"
    /\ ~icon.raised
    /\ arg = 35
    /\ Cardinality(LineOps(icon)) = 3

\* C5: run against an empty directory with no failure, the batch driver
\* leaves exactly the 4 files icon16.png, icon32.png, icon48.png and
\* icon128.png, and icon<s>.png holds the s x s bitmap create_icon(s)
\* returned.
C5_FourFilesEndToEnd ==
    (pc = "done" /\ files0 = EmptyDir /\ AllOk) =>
        /\ DOMAIN files = {"icon16.png", "icon32.png", "icon48.png", "icon128.png"}
        /\ Cardinality(DOMAIN files) = 4
        /\ \A i \in DOMAIN sizes :
             /\ files[IconName(sizes[i])] = Png(trace[i].returned.img)
             /\ trace[i].returned.size = sizes[i]
             /\ files[IconName(sizes[i])].img.w = sizes[i]
             /\ files[IconName(sizes[i])].img.h = sizes[i]
        /\ files["icon16.png"].img.w = 16
        /\ files["icon128.png"].img.w = 128

C5_Witness == pc = "done" /\ files0 = EmptyDir /\ dirState = "dir" /\ AllOk

\* C6: for every size of 16, 32, 48, 128 the four corner pixels of the
\* bitmap create_icon returns are fully transparent (alpha 0).
C6_CornersTransparent ==
    (icon # NoIcon /\ ~icon.raised) =>
        LET n == icon.size
        IN  /\ GetPixel(icon.img, 0, 0)[4] = 0
            /\ GetPixel(icon.img, n - 1, 0)[4] = 0
            /\ GetPixel(icon.img, 0, n - 1)[4] = 0
            /\ GetPixel(icon.img, n - 1, n - 1)[4] = 0

C6_Witness ==
    /\ pc = "done"
    /\ AllOk
    /\ icon.size = 128
    /\ GetPixel(icon.img, 64, 20) = BLUE
    /\ GetPixel(icon.img, 64, 40) = WHITE

\* C7: the output directory exists before the first icon is generated or
\* saved; ensuring it when it already exists changes nothing; when creating
\* it fails the failure is not caught: the run ends with no size attempted
\* and no file written.
C7_DirectoryFirst ==
    /\ []((pc \in {"loop", "summary", "done"} \/ trace # <<>> \/ icon # NoIcon
             \/ files # files0) => dirState = "dir")
    /\ [](pc = "crashed" =>
            /\ trace = <<>>
            /\ icon = NoIcon
            /\ log = <<>>
            /\ files = files0)
    /\ [][(pc = "makedirs" /\ dirState = "dir") =>
            (pc' = "loop" /\ dirState' = dirState /\ files' = files)]_vars
    /\ [][pc = "crashed" => pc' = "crashed"]_vars

C7_Witness == pc = "crashed" /\ dirState = "absent"

\* C8: over the sizes 16 < 32 < 48 < 128 taken in increasing order, margin,
\* note_margin, note_width, note_height, note_x and note_y are each
\* non-decreasing.
C8_MonotoneGeometry ==
    \A i, j \in DOMAIN trace :
        i < j =>
          LET s == trace[i].size
              t == trace[j].size
          IN  /\ s < t
              /\ margin(s) <= margin(t)
              /\ note_margin(s) <= note_margin(t)
              /\ note_width(s) <= note_width(t)
              /\ note_height(s) <= note_height(t)
              /\ note_x(s) <= note_x(t)
              /\ note_y(s) <= note_y(t)

C8_Witness ==
    /\ pc = "done"
    /\ Len(trace) = 4
    /\ <<note_y(trace[1].size), note_y(trace[2].size),
         note_y(trace[3].size), note_y(trace[4].size)>> = <<5, 10, 14, 38>>

C10_ShapesNested ==
    (icon # NoIcon /\ ~icon.raised) =>
        LET ops   == icon.img.ops
            badge == ops[1].box
            note  == ops[2].box
        IN  /\ Len(ops) >= 2
            /\ ops[1].kind = "rounded_rectangle"
            /\ badge[1] <= note[1] /\ note[3] <= badge[3]
            /\ badge[2] <= note[2] /\ note[4] <= badge[4]
            /\ \A k \in LineOps(icon) :
                 /\ note[1] <= ops[k].box[1] /\ ops[k].box[3] <= note[3]
                 /\ note[2] <= ops[k].box[2] /\ ops[k].box[4] <= note[4]
                 /\ ops[k].box[1] <= ops[k].box[3]
                 /\ ops[k].box[2] <= ops[k].box[4]
            /\ \A k \in LineOps(icon) :
                 (k + 1) \in LineOps(icon) => ops[k].box[4] < ops[k + 1].box[2]
            /\ LineOps(icon) # {} => line_height(icon.size) < line_spacing(icon.size)

C10_Witness ==
    /\ icon # NoIcon
    /\ icon.size = 48
    /\ Cardinality(LineOps(icon)) = 2

====
